---- MODULE Spec2Model ----
(***************************************************************************)
(* Model of CellphoneS_Crawl.py: the sitemap walker (iter_product_urls,    *)
(* _discover_product_urls_from_sitemap), the category tree builder         *)
(* (ensure_category, to_path, norm_text) and the orchestrator (main) with  *)
(* its CSV export.                                                         *)
(*                                                                         *)
(* Text is a sequence of one-character tokens; "" of Python is <<>>.       *)
(* An Optional value is None (<<>>) or Some(v) (<<v>>).                    *)
(***************************************************************************)
EXTENDS Integers, Sequences, FiniteSets, TLC

VARIABLES
    limit,        \* iter_product_urls(limit=...): None or Some(K)
    entries,      \* sorted entrypoints returned by find_product_sitemaps
    web,          \* address -> Some(document the site serves), None until first requested
    seen,         \* iter_product_urls: seen
    stack,        \* call stack of _discover_product_urls_from_sitemap
    gpc,          \* position of the generator iter_product_urls
    ei,           \* index of the current entry in the "for entry in entries" loop
    urls,         \* result of the current entry's discovery
    ui,           \* index of the next url of urls to yield
    total,        \* iter_product_urls: total
    yielded,      \* every URL the generator has yielded, in order
    fetched,      \* every sitemap address handed to _fetch_xml_text, in order
    mpc,          \* position of the consumer (main, or a plain drain of the generator)
    pages,        \* every product URL handed to parse_product, in order
    products,     \* main: products
    categories,   \* main: categories (the node map of ensure_category)
    catCsv,       \* rows of categories.csv (None until written)
    prodCsv,      \* rows of products.csv (None until written)
    interrupted,  \* a KeyboardInterrupt was delivered to main
    calls,        \* number of ensure_category calls made by the tree harness
    submitted,    \* the chains the tree harness has submitted
    lastRet,      \* outcome of the last ensure_category call of the tree harness
    fnArg,        \* the text handed to to_path, uuid_cat and uuid_prod by the function harness
    fnOut         \* what they returned (None until one is applied)

vars == <<limit, entries, web, seen, stack, gpc, ei, urls, ui, total, yielded,
          fetched, mpc, pages, products, categories, catCsv, prodCsv,
          interrupted, calls, submitted, lastRet, fnArg, fnOut>>

walkVars == <<limit, entries, web, seen, stack, gpc, ei, urls, ui, total,
              yielded, fetched>>
mainVars == <<mpc, pages, products, catCsv, prodCsv, interrupted>>
treeVars == <<calls, submitted, lastRet>>
pureVars == <<fnArg, fnOut>>
\* what the walker never touches
notWalk == <<pages, products, categories, catCsv, prodCsv, interrupted,
             calls, submitted, lastRet, fnArg, fnOut>>

None == <<>>
Some(v) == <<v>>
IsSome(o) == o # <<>>
TheVal(o) == o[1]

Last(s) == s[Len(s)]
Range(s) == {s[i] : i \in 1..Len(s)}

(***************************************************************************)
(* Characters                                                              *)
(***************************************************************************)
LowerSeq == <<"a","b","c","d","e","f","g","h","i","j","k","l","m",
              "n","o","p","q","r","s","t","u","v","w","x","y","z">>
UpperSeq == <<"A","B","C","D","E","F","G","H","I","J","K","L","M",
              "N","O","P","Q","R","S","T","U","V","W","X","Y","Z">>
AsciiLower == Range(LowerSeq)
AsciiUpper == Range(UpperSeq)
Digits == {"0","1","2","3","4","5","6","7","8","9"}
\* characters matched by \s and stripped by str.strip()
Whitespace == {" ", "\t"}
\* combining marks (Unicode category Mn): acute, circumflex, dot below, grave
CombiningMarks == {"Mn301", "Mn302", "Mn323", "Mn300"}
\* precomposed letters and their canonical decomposition (NFD)
Decomposition ==
    [c \in {"e'", "e^.", "a.", "A'"} |->
        CASE c = "e'"  -> <<"e", "Mn301">>
          [] c = "e^." -> <<"e", "Mn323", "Mn302">>
          [] c = "a."  -> <<"a", "Mn323">>
          [] c = "A'"  -> <<"A", "Mn301">>]

\* str.lower() on one character ("D-" is the letter D with stroke, "d-" its
\* lower case; neither has a canonical decomposition)
LowerChar(c) ==
    IF c \in AsciiUpper
    THEN LowerSeq[CHOOSE i \in 1..26 : UpperSeq[i] = c]
    ELSE IF c = "D-" THEN "d-" ELSE c

\* the characters a canonical path can hold, in code point order
CodeOrder == <<"-", "/", "0","1","2","3","4","5","6","7","8","9">> \o LowerSeq \o <<"|">>
CodePoint(c) == CHOOSE i \in 1..Len(CodeOrder) : CodeOrder[i] = c
CharLess(c, d) == CodePoint(c) < CodePoint(d)

\* unicodedata.normalize("NFD", s)
RECURSIVE NFD(_)
NFD(s) ==
    IF s = <<>> THEN <<>>
    ELSE (IF s[1] \in DOMAIN Decomposition THEN Decomposition[s[1]] ELSE <<s[1]>>)
         \o NFD(Tail(s))

\* "".join(ch for ch in s if unicodedata.category(ch) != "Mn")
DropMn(s) == SelectSeq(s, LAMBDA c : c \notin CombiningMarks)

\* the characters the class [a-zA-Z0-9\s\/\-\|] matches
AllowedChar(c) ==
    c \in AsciiLower \cup AsciiUpper \cup Digits \cup Whitespace \cup {"/", "-", "|"}

\* re.sub(r"[^a-zA-Z0-9\s\/\-\|]+", " ", s): every maximal run of characters
\* outside the class becomes one space; inRun: the previous one was in a run
RECURSIVE SubDisallowed(_, _)
SubDisallowed(s, inRun) ==
    IF s = <<>> THEN <<>>
    ELSE IF ~AllowedChar(s[1])
         THEN (IF inRun THEN <<>> ELSE <<" ">>) \o SubDisallowed(Tail(s), TRUE)
         ELSE <<s[1]>> \o SubDisallowed(Tail(s), FALSE)

\* re.sub(r"\s+", " ", s): every maximal run of whitespace becomes one space
RECURSIVE SubSpaces(_, _)
SubSpaces(s, inRun) ==
    IF s = <<>> THEN <<>>
    ELSE IF s[1] \in Whitespace
         THEN (IF inRun THEN <<>> ELSE <<" ">>) \o SubSpaces(Tail(s), TRUE)
         ELSE <<s[1]>> \o SubSpaces(Tail(s), FALSE)

\* str.strip(chars): drop the leading and trailing characters that are in chars
RECURSIVE LStrip(_, _)
LStrip(s, chars) ==
    IF s # <<>> /\ s[1] \in chars THEN LStrip(Tail(s), chars) ELSE s
RECURSIVE RStrip(_, _)
RStrip(s, chars) ==
    IF s # <<>> /\ Last(s) \in chars THEN RStrip(SubSeq(s, 1, Len(s) - 1), chars) ELSE s
Strip(s, chars) == RStrip(LStrip(s, chars), chars)

\* str.lower()
Lower(s) == [i \in 1..Len(s) |-> LowerChar(s[i])]
\* str.replace(" ", "-")
SpaceToHyphen(s) == [i \in 1..Len(s) |-> IF s[i] = " " THEN "-" ELSE s[i]]

norm_text(s) ==
    IF s = <<>> THEN <<>>
    ELSE LET s1 == Strip(s, Whitespace)
             s2 == NFD(s1)
             s3 == DropMn(s2)
             s4 == SubDisallowed(s3, FALSE)
             s5 == SubSpaces(s4, FALSE)
         IN  Strip(s5, Whitespace)

\* "/".join(cleaned)
RECURSIVE JoinSlash(_)
JoinSlash(segs) ==
    IF segs = <<>> THEN <<>>
    ELSE IF Len(segs) = 1 THEN segs[1]
    ELSE segs[1] \o <<"/">> \o JoinSlash(Tail(segs))

CleanPartStripFirst(p) == SpaceToHyphen(Strip(Lower(norm_text(p)), {"-", "/", "|"}))
\* one part of to_path: norm_text(p).lower().replace(" ", "-").strip("-/|")
CleanPart(p) == Strip(SpaceToHyphen(Lower(norm_text(p))), {"-", "/", "|"})

\* to_path(*parts), parts a sequence of texts
to_path(parts) ==
    LET kept == SelectSeq(parts, LAMBDA p : p # <<>>)
        p2s == [i \in 1..Len(kept) |-> CleanPart(kept[i])]
    IN  JoinSlash(SelectSeq(p2s, LAMBDA p2 : p2 # <<>>))

POPULAR_TOP == {
    <<"d","i","e","n","-","t","h","o","a","i">>, <<"t","a","b","l","e","t">>,
    <<"l","a","p","t","o","p">>, <<"a","m","-","t","h","a","n","h">>,
    <<"d","o","n","g","-","h","o">>, <<"p","h","u","-","k","i","e","n">>,
    <<"t","i","v","i">>, <<"p","c">>, <<"m","a","n","-","h","i","n","h">>,
    <<"g","i","a","-","d","u","n","g">>, <<"c","a","m","e","r","a">>,
    <<"d","i","e","n","-","m","a","y">> }

(***************************************************************************)
(* Category tree                                                           *)
(***************************************************************************)
CategoryNode(name, path, parent_path, is_popular) ==
    [name |-> name, path |-> path, parent_path |-> parent_path,
     is_popular |-> is_popular]

\* nodes[path] = node
PutNode(nodes, path, node) ==
    [p \in DOMAIN nodes \cup {path} |-> IF p = path THEN node ELSE nodes[p]]

AddNodeOverwriting(nodes, name, path, parent_path, is_popular) ==
    PutNode(nodes, path, CategoryNode(Strip(name, Whitespace), path, parent_path,
                                      is_popular))
\* the node map after "if path not in nodes: nodes[path] = CategoryNode(...)"
AddNode(nodes, name, path, parent_path, is_popular) ==
    IF path \notin DOMAIN nodes
    THEN PutNode(nodes, path, CategoryNode(Strip(name, Whitespace), path, parent_path,
                                           is_popular))
    ELSE nodes

\* the rest of the loop body once path is computed
StepAt(st, path, is_popular, name) ==
    [nodes |-> AddNode(st.nodes, name, path, st.parent_path, is_popular),
     parent_path |-> Some(path),
     built_paths |-> Append(st.built_paths, path),
     raised |-> FALSE]

CategoryStepPopularAtAnyDepth(st, depth, name) ==
    IF st.raised \/ name = <<>> THEN st
    ELSE IF depth = 1
    THEN StepAt(st, to_path(<<name>>), to_path(<<name>>) \in POPULAR_TOP, name)
    ELSE IF st.built_paths = <<>>
    THEN [st EXCEPT !.raised = TRUE]
    ELSE StepAt(st, to_path(<<Last(st.built_paths), name>>),
                to_path(<<name>>) \in POPULAR_TOP, name)
\* the body of the loop "for depth, name in enumerate(chain, start=1)" for one
\* name; st = [nodes, parent_path, built_paths, raised]
CategoryStep(st, depth, name) ==
    IF st.raised \/ name = <<>> THEN st
    ELSE IF depth = 1
    THEN StepAt(st, to_path(<<name>>), to_path(<<name>>) \in POPULAR_TOP, name)
    ELSE IF st.built_paths = <<>>
    THEN [st EXCEPT !.raised = TRUE]          \* built_paths[-1]: IndexError
    ELSE StepAt(st, to_path(<<Last(st.built_paths), name>>), FALSE, name)

RECURSIVE CategoryLoop(_, _, _)
CategoryLoop(st, chain, depth) ==
    IF depth > Len(chain) THEN st
    ELSE CategoryLoop(CategoryStep(st, depth, chain[depth]), chain, depth + 1)

ReturnedFirst(st) ==
    [nodes |-> st.nodes,
     ret |-> IF st.built_paths # <<>> /\ ~st.raised
             THEN Some(st.built_paths[1]) ELSE None,
     raised |-> st.raised]
\* what ensure_category hands back when its loop ends in state st: the node
\* map, the value returned (None or Some(path)) and whether the call raised
Returned(st) ==
    [nodes |-> st.nodes,
     ret |-> IF st.built_paths # <<>> /\ ~st.raised
             THEN Some(Last(st.built_paths)) ELSE None,
     raised |-> st.raised]

\* ensure_category(nodes, chain)
ensure_category(nodes, chain) ==
    IF chain = <<>> THEN [nodes |-> nodes, ret |-> None, raised |-> FALSE]
    ELSE Returned(CategoryLoop([nodes |-> nodes, parent_path |-> None,
                                built_paths |-> <<>>, raised |-> FALSE], chain, 1))

\* n.path.count("/")
CountSlash(path) == Cardinality({i \in 1..Len(path) : path[i] = "/"})

\* lexicographic order of str: a < b
RECURSIVE StrLess(_, _)
StrLess(a, b) ==
    IF b = <<>> THEN FALSE
    ELSE IF a = <<>> THEN TRUE
    ELSE IF a[1] = b[1] THEN StrLess(Tail(a), Tail(b))
    ELSE CharLess(a[1], b[1])

\* the sort key of topological_categories: (n.path.count("/"), n.path)
KeyLess(n, m) ==
    \/ CountSlash(n.path) < CountSlash(m.path)
    \/ CountSlash(n.path) = CountSlash(m.path) /\ StrLess(n.path, m.path)

topological_categoriesDescending(nodes) ==
    LET ns == {nodes[p] : p \in DOMAIN nodes}
        rank(n) == Cardinality({m \in ns : KeyLess(n, m)}) + 1
    IN  [i \in 1..Cardinality(ns) |-> CHOOSE n \in ns : rank(n) = i]
\* sorted(nodes.values(), key=...): the keys of two nodes differ, since their
\* paths (the keys of the map) do
topological_categories(nodes) ==
    LET ns == {nodes[p] : p \in DOMAIN nodes}
        rank(n) == Cardinality({m \in ns : KeyLess(m, n)}) + 1
    IN  [i \in 1..Cardinality(ns) |-> CHOOSE n \in ns : rank(n) = i]

(***************************************************************************)
(* Tree harness: any sequence of ensure_category calls on one node map     *)
(***************************************************************************)
MaxChain == 2
MaxCalls == 2

\* display names: "", "PC", "pc/PC", "!!"
NameSet == { <<>>, <<"P","C">>, <<"p","c","/","P","C">>, <<"!","!">> }

RECURSIVE SeqsUpTo(_, _)
SeqsUpTo(S, n) ==
    IF n = 0 THEN {<<>>}
    ELSE LET shorter == SeqsUpTo(S, n - 1)
         IN  shorter \cup {Append(s, x) : s \in {t \in shorter : Len(t) = n - 1}, x \in S}

\* the display names "D-ie^.n thoa.i" (Dien thoai with its Vietnamese letters:
\* D with stroke, e with circumflex and dot below, a with dot below) and
\* "Samsung Galaxy"
DienThoai == <<"D-","i","e^.","n"," ","t","h","o","a.","i">>
SamsungGalaxy == <<"S","a","m","s","u","n","g"," ","G","a","l","a","x","y">>
ExampleChain == <<DienThoai, SamsungGalaxy>>

ChainSet == SeqsUpTo(NameSet, MaxChain) \cup {ExampleChain}

EmptyMap == <<>>

IdleWalk ==
    /\ limit = None /\ entries = <<>> /\ web = <<>> /\ seen = {} /\ stack = <<>>
    /\ gpc = "done" /\ ei = 0 /\ urls = <<>> /\ ui = 0 /\ total = 0
    /\ yielded = <<>> /\ fetched = <<>>
IdleMain ==
    /\ mpc = "idle" /\ pages = <<>> /\ products = <<>>
    /\ catCsv = None /\ prodCsv = None /\ interrupted = FALSE
IdlePure == fnArg = None /\ fnOut = None
IdleTree ==
    /\ calls = 0 /\ submitted = {} /\ lastRet = None

TreeInit ==
    /\ IdleWalk /\ IdleMain /\ IdleTree /\ IdlePure
    /\ categories = EmptyMap

\* one call ensure_category(categories, chain)
\* one call ensure_category(categories, chain) that handed back r
TreeReturn(chain, r) ==
    /\ categories' = r.nodes
    /\ lastRet' = Some([chain |-> chain, ret |-> r.ret, raised |-> r.raised])
    /\ calls' = calls + 1
    /\ submitted' = submitted \cup {chain}
    /\ UNCHANGED <<walkVars, mainVars, pureVars>>

TreeCall(chain) ==
    /\ calls < MaxCalls
    /\ TreeReturn(chain, ensure_category(categories, chain))

TreeNext == \E chain \in ChainSet : TreeCall(chain)

TreeSpec == TreeInit /\ [][TreeNext]_vars

(***************************************************************************)
(* Sitemap walker                                                          *)
(***************************************************************************)
MaxLocs == 2
MaxLimit == 2
max_retry == 4

\* sitemap addresses of the site; the site may serve any document at s1 and
\* s2, and serves no sitemapindex at s3
Addr == {"s1", "s2", "s3"}
LeafAddr == {"s3"}
\* locations a urlset lists: a.html, b.php, c.HTML
Loc == { [stem |-> "a", ext |-> ".html"], [stem |-> "b", ext |-> ".php"],
         [stem |-> "c", ext |-> ".HTML"] }

\* what the site answers to a GET of a sitemap address: fails is the number of
\* leading attempts on which requests.get raises; typ and locs are what
\* _extract_locs_from_xml finds in the body ("unknown" also stands for an
\* empty or unparseable body)
Document(fails, status, typ, locs) ==
    [fails |-> fails, status |-> status, typ |-> typ, locs |-> locs]
DocSet ==
    {Document(max_retry + 1, 0, "unknown", <<>>), Document(0, 404, "unknown", <<>>),
     Document(0, 200, "unknown", <<>>)}
    \cup {Document(0, 200, "sitemapindex", l) : l \in SeqsUpTo(Addr, MaxLocs)}
    \cup {Document(0, 200, "urlset", l) : l \in SeqsUpTo(Loc, MaxLocs)}

\* the documents the site may serve at address a
DocsAt(a) == IF a \in LeafAddr THEN {d \in DocSet : d.typ # "sitemapindex"} ELSE DocSet

LimitSet == {None} \cup {Some(k) : k \in 0..MaxLimit}
\* find_product_sitemaps returns a sorted list of distinct addresses
EntrySet == {<<>>, <<"s1">>, <<"s1", "s2">>}

\* http_get: max_retry attempts in the loop and a final one that is let raise
http_get_raises(doc) == doc.fails > max_retry

\* urljoin(url, loc) for the absolute locations the model's documents list
urljoin(url, loc) == loc

\* loc.lower().endswith(".html")
LowerExt(ext) == IF ext = ".HTML" THEN ".html" ELSE ext
IsHtml(loc) == LowerExt(loc.ext) = ".html"

\* "budget_left is not None and len(results) >= budget_left" and
\* "limit is not None and total >= limit"
BudgetReachedOffByOne(budget, n) == IsSome(budget) /\ n > TheVal(budget)
BudgetReached(budget, n) == IsSome(budget) /\ n >= TheVal(budget)

RemainingWhole(budget, n) == budget
\* None if budget_left is None else (budget_left - len(results))
Remaining(budget, n) == IF budget = None THEN None ELSE Some(TheVal(budget) - n)

RECURSIVE UrlsetLoopNoFilter(_, _, _)
UrlsetLoopNoFilter(locs, budget_left, results) ==
    IF locs = <<>> \/ BudgetReached(budget_left, Len(results)) THEN results
    ELSE UrlsetLoopNoFilter(Tail(locs), budget_left, Append(results, locs[1]))
\* the urlset branch of _discover_product_urls_from_sitemap
RECURSIVE UrlsetLoop(_, _, _)
UrlsetLoop(locs, budget_left, results) ==
    IF locs = <<>> \/ BudgetReached(budget_left, Len(results)) THEN results
    ELSE UrlsetLoop(Tail(locs), budget_left,
                    IF IsHtml(locs[1]) THEN Append(results, locs[1]) ELSE results)
UrlsetResults(locs, budget_left) == UrlsetLoop(locs, budget_left, <<>>)

\* a call of _discover_product_urls_from_sitemap that is inside its
\* sitemapindex loop: locs[i] is the next child
Frame(url, budget_left, locs, i, results) ==
    [url |-> url, budget_left |-> budget_left, locs |-> locs, i |-> i,
     results |-> results]

Top == stack[Len(stack)]
Callers == SubSeq(stack, 1, Len(stack) - 1)

\* "url in seen"
AlreadySeenNever(url, seenSet) == FALSE
AlreadySeen(url, seenSet) == url \in seenSet

\* a call returns r to the callers on base: to the index loop of the last of
\* them (results.extend(sub)), or to iter_product_urls (urls = ...)
ReturnTo(base, r) ==
    IF base = <<>>
    THEN /\ stack' = <<>>
         /\ urls' = r /\ ui' = 1 /\ gpc' = "yield"
    ELSE /\ stack' = [base EXCEPT ![Len(base)] =
                          [@ EXCEPT !.results = @ \o r, !.i = @ + 1]]
         /\ UNCHANGED <<urls, ui>>
         /\ gpc' = "discover"

\* _discover_product_urls_from_sitemap(url, headers, seen, budget_left), called
\* by the callers on base, up to its return or to the head of its
\* sitemapindex loop
Call(url, budget_left, base) ==
    IF AlreadySeen(url, seen)
    THEN /\ ReturnTo(base, <<>>)
         /\ UNCHANGED <<seen, fetched, web, mpc>>
    ELSE /\ seen' = seen \cup {url}
         /\ fetched' = Append(fetched, url)
         /\ \E doc \in (IF web[url] = None THEN DocsAt(url) ELSE {TheVal(web[url])}) :
              /\ web' = [web EXCEPT ![url] = Some(doc)]
              /\ IF http_get_raises(doc)
                 THEN \* the exception leaves every call and the generator
                      /\ stack' = <<>> /\ gpc' = "raised" /\ mpc' = "raised"
                      /\ UNCHANGED <<urls, ui>>
                 ELSE /\ UNCHANGED mpc
                      /\ IF doc.status # 200 \/ doc.typ = "unknown"
                         THEN ReturnTo(base, <<>>)
                         ELSE IF doc.typ = "sitemapindex"
                         THEN /\ stack' = Append(base, Frame(url, budget_left, doc.locs, 1, <<>>))
                              /\ gpc' = "discover"
                              /\ UNCHANGED <<urls, ui>>
                         ELSE ReturnTo(base, UrlsetResults(doc.locs, budget_left))

\* iter_product_urls, loop head "for entry in entries": the loop is over (no
\* entry is left, or the limit is reached) and the generator returns, or it
\* calls _discover_product_urls_from_sitemap(entry, headers, seen, budget)
GenEntry ==
    /\ mpc = "next" /\ gpc = "entry"
    /\ IF ei > Len(entries) \/ BudgetReached(limit, total)
       THEN /\ gpc' = "done" /\ mpc' = "end"
            /\ UNCHANGED <<stack, urls, ui, seen, fetched, web>>
       ELSE Call(entries[ei], Remaining(limit, total), <<>>)
    /\ UNCHANGED <<limit, entries, ei, total, yielded, notWalk>>

\* the sitemapindex loop of the innermost call: break or finish and return
\* results, or recurse into the next child
DiscoverLoop ==
    /\ mpc = "next" /\ gpc = "discover"
    /\ IF Top.i > Len(Top.locs) \/ BudgetReached(Top.budget_left, Len(Top.results))
       THEN /\ ReturnTo(Callers, Top.results)
            /\ UNCHANGED <<seen, fetched, web, mpc>>
       ELSE Call(urljoin(Top.url, Top.locs[Top.i]),
                 Remaining(Top.budget_left, Len(Top.results)), stack)
    /\ UNCHANGED <<limit, entries, ei, total, yielded, notWalk>>

\* "for u in urls: yield u", or the end of that loop
GenYield ==
    /\ mpc = "next" /\ gpc = "yield"
    /\ IF ui <= Len(urls)
       THEN /\ yielded' = Append(yielded, urls[ui])
            /\ gpc' = "resume" /\ mpc' = "got"
            /\ UNCHANGED ei
       ELSE /\ ei' = ei + 1 /\ gpc' = "entry"
            /\ UNCHANGED <<yielded, mpc>>
    /\ UNCHANGED <<limit, entries, web, seen, stack, urls, ui, total, fetched,
                   notWalk>>

GenResumeAlwaysBreak ==
    /\ mpc = "next" /\ gpc = "resume"
    /\ total' = total + 1
    /\ ei' = ei + 1 /\ gpc' = "entry" /\ UNCHANGED ui
    /\ UNCHANGED <<limit, entries, web, seen, stack, urls, yielded, fetched, mpc,
                   notWalk>>
\* the generator is resumed after a yield: total += 1, then break or go on
GenResume ==
    /\ mpc = "next" /\ gpc = "resume"
    /\ total' = total + 1
    /\ IF BudgetReached(limit, total + 1)
       THEN ei' = ei + 1 /\ gpc' = "entry" /\ UNCHANGED ui
       ELSE ui' = ui + 1 /\ gpc' = "yield" /\ UNCHANGED ei
    /\ UNCHANGED <<limit, entries, web, seen, stack, urls, yielded, fetched, mpc,
                   notWalk>>

Walker == GenEntry \/ DiscoverLoop \/ GenYield \/ GenResume

\* state of iter_product_urls(headers, limit) when first resumed ("if not
\* entries: return" is the loop over no entries)
WalkStart ==
    /\ limit \in LimitSet /\ entries \in EntrySet
    /\ web = [a \in Addr |-> None]
    /\ seen = {} /\ stack = <<>> /\ total = 0
    /\ gpc = "entry"
    /\ ei = 1 /\ urls = <<>> /\ ui = 1
    /\ yielded = <<>> /\ fetched = <<>>

\* a consumer that only drains the generator: for u in iter_product_urls(...): pass
Drain ==
    /\ mpc = "got" /\ mpc' = "next"
    /\ UNCHANGED <<walkVars, notWalk>>

WalkInit ==
    /\ WalkStart
    /\ mpc = "next" /\ pages = <<>> /\ products = <<>>
    /\ catCsv = None /\ prodCsv = None /\ interrupted = FALSE
    /\ categories = EmptyMap /\ IdleTree /\ IdlePure

WalkNext == Walker \/ Drain

WalkSpec == WalkInit /\ [][WalkNext]_vars

(***************************************************************************)
(* Product pages, export and the orchestrator main                         *)
(***************************************************************************)
MaxCrumbLen == 60
MaxPicked == 3

\* the loop "for c in arr" of pick_category_path_from_breadcrumb
RECURSIVE PickCleaned(_, _)
PickCleaned(arr, cleaned) ==
    IF arr = <<>> \/ Len(arr[1]) > MaxCrumbLen THEN cleaned
    ELSE IF Len(cleaned) + 1 >= MaxPicked THEN Append(cleaned, arr[1])
    ELSE PickCleaned(Tail(arr), Append(cleaned, arr[1]))

\* the loop "for c in cleaned": drop what repeats an earlier entry, case ignored
RECURSIVE PickDistinct(_, _, _)
PickDistinct(cleaned, out, seenKeys) ==
    IF cleaned = <<>> THEN out
    ELSE LET k == Lower(cleaned[1])
         IN  IF k \in seenKeys THEN PickDistinct(Tail(cleaned), out, seenKeys)
             ELSE PickDistinct(Tail(cleaned), Append(out, cleaned[1]), seenKeys \cup {k})

pick_category_path_from_breadcrumb(crumbs) ==
    IF crumbs = <<>> THEN <<>>
    ELSE LET arr == SelectSeq(crumbs, LAMBDA c : c # <<>> /\ Len(c) > 1)
         IN  PickDistinct(PickCleaned(arr, <<>>), <<>>, {})

\* breadcrumb trails the product pages of the site show (extract_breadcrumbs):
\* none; "PC"; "pc", "tv"; "x", "PC", "pc", "tv"
CrumbSet == { <<>>, << <<"P","C">> >>, << <<"p","c">>, <<"t","v">> >>,
              << <<"x">>, <<"P","C">>, <<"p","c">>, <<"t","v">> >> }

\* what parse_product returns for a page: None (the GET failed, or an
\* exception main catches), or the record, of which the model keeps the url
\* and the category chain
ParseOutcomes(url) ==
    {None} \cup {Some([url |-> url, category_chain |-> pick_category_path_from_breadcrumb(c)])
                 : c \in CrumbSet}

uuid_cat(path) == IF path = <<>> THEN <<>> ELSE <<"cellphones:/cat/", path>>
uuid_prod(url) == <<"cellphones:/prod/", url>>

\* the row write_categories_csv writes for node c
CategoryRow(c) ==
    [id |-> uuid_cat(c.path),
     name |-> c.name,
     parent_id |-> IF c.parent_path # None /\ TheVal(c.parent_path) # <<>>
                   THEN uuid_cat(TheVal(c.parent_path)) ELSE <<>>,
     is_popular |-> IF c.is_popular THEN "true" ELSE "false"]

RowsOf(cats) == [i \in 1..Len(cats) |-> CategoryRow(cats[i])]

\* the rows write_categories_csv writes after the header
CategoryRows(nodes) == RowsOf(topological_categories(nodes))

ProductRowProdNamespace(p, last_path) ==
    [id |-> uuid_prod(p.url),
     category_id |-> IF last_path # None /\ TheVal(last_path) # <<>>
                     THEN uuid_prod(TheVal(last_path)) ELSE <<>>]
\* the row write_products_csv writes for product p when last_path is what
\* ensure_category returned
ProductRow(p, last_path) ==
    [id |-> uuid_prod(p.url),
     category_id |-> IF last_path # None /\ TheVal(last_path) # <<>>
                     THEN uuid_cat(TheVal(last_path)) ELSE <<>>]

\* the state st = [nodes, rows, raised] of write_products_csv after product p,
\* r being what ensure_category handed back for it
AfterProduct(st, p, r) ==
    [nodes |-> r.nodes,
     rows |-> IF r.raised THEN st.rows ELSE Append(st.rows, ProductRow(p, r.ret)),
     raised |-> r.raised]

\* the loop "for p in rows" of write_products_csv over the products from the
\* k-th on
RECURSIVE ProductRows(_, _, _)
ProductRows(st, rows, k) ==
    IF k > Len(rows) \/ st.raised THEN st
    ELSE ProductRows(AfterProduct(st, rows[k],
                                  IF rows[k].category_chain # <<>>
                                  THEN ensure_category(st.nodes, rows[k].category_chain)
                                  ELSE [nodes |-> st.nodes, ret |-> None,
                                        raised |-> FALSE]),
                     rows, k + 1)

\* main, "pdata = parse_product(url, headers)" and "products.append(pdata)"
ParseProduct ==
    /\ mpc = "got"
    /\ pages' = Append(pages, Last(yielded))
    /\ \E pdata \in ParseOutcomes(Last(yielded)) :
         IF pdata = None
         THEN mpc' = "sleep" /\ UNCHANGED products
         ELSE mpc' = "ensure" /\ products' = Append(products, TheVal(pdata))
    /\ UNCHANGED <<walkVars, categories, catCsv, prodCsv, interrupted, treeVars, pureVars>>

\* main continues after a call of ensure_category that handed back r
Ensured(r) ==
    /\ categories' = r.nodes
    /\ mpc' = IF r.raised THEN "raised" ELSE "sleep"

\* main, "ensure_category(categories, pdata.get("category_chain") or [])"
EnsureCategory ==
    /\ mpc = "ensure"
    /\ Ensured(ensure_category(categories, Last(products).category_chain))
    /\ UNCHANGED <<walkVars, pages, products, catCsv, prodCsv, interrupted, treeVars, pureVars>>

\* main, "time.sleep(...)" returns and the for loop asks the generator for
\* the next url
Sleep ==
    /\ mpc = "sleep" /\ mpc' = "next"
    /\ UNCHANGED <<walkVars, pages, products, categories, catCsv, prodCsv,
                   interrupted, treeVars, pureVars>>

\* a KeyboardInterrupt arrives inside the try block of main and is caught by
\* "except KeyboardInterrupt"
InterruptUncaught ==
    /\ mpc \in {"next", "got", "ensure", "sleep"}
    /\ interrupted' = TRUE /\ mpc' = "raised"
    /\ UNCHANGED <<walkVars, pages, products, categories, catCsv, prodCsv, treeVars, pureVars>>
Interrupt ==
    /\ mpc \in {"next", "got", "ensure", "sleep"}
    /\ interrupted' = TRUE /\ mpc' = "end"
    /\ UNCHANGED <<walkVars, pages, products, categories, catCsv, prodCsv, treeVars, pureVars>>

\* main, "write_categories_csv(categories, cat_csv)"
WriteCategories ==
    /\ mpc = "end"
    /\ catCsv' = Some(CategoryRows(categories))
    /\ mpc' = "write_products"
    /\ UNCHANGED <<walkVars, pages, products, categories, prodCsv, interrupted,
                   treeVars, pureVars>>

\* write_products_csv ended in state st: the rows written before a raise stay
\* in the file
Written(st) ==
    /\ categories' = st.nodes
    /\ prodCsv' = Some(st.rows)
    /\ mpc' = IF st.raised THEN "raised" ELSE "done"

\* main, "write_products_csv(products, prod_csv, categories)"
WriteProducts ==
    /\ mpc = "write_products"
    /\ Written(ProductRows([nodes |-> categories, rows |-> <<>>, raised |-> FALSE],
                           products, 1))
    /\ UNCHANGED <<walkVars, pages, products, catCsv, interrupted, treeVars, pureVars>>

U(stem, ext) == [stem |-> stem, ext |-> ext]
\* sites the orchestrator is run against
MainSites == {
    ("s1" :> Some(Document(0, 200, "urlset", <<U("a", ".html"), U("c", ".HTML")>>))
     @@ "s2" :> Some(Document(0, 200, "sitemapindex", <<"s3", "s1">>))
     @@ "s3" :> Some(Document(0, 200, "urlset", <<U("b", ".php"), U("a", ".html")>>))),
    ("s1" :> Some(Document(0, 200, "sitemapindex", <<"s2", "s3">>))
     @@ "s2" :> Some(Document(0, 404, "unknown", <<>>))
     @@ "s3" :> Some(Document(0, 200, "urlset", <<U("a", ".html"), U("d", ".html")>>))),
    ("s1" :> Some(Document(0, 200, "urlset", <<U("a", ".html")>>))
     @@ "s2" :> Some(Document(max_retry + 1, 0, "unknown", <<>>))
     @@ "s3" :> Some(Document(0, 200, "unknown", <<>>))) }

Init ==
    /\ limit \in LimitSet /\ entries \in EntrySet
    /\ web \in MainSites
    /\ seen = {} /\ stack = <<>> /\ total = 0
    /\ gpc = "entry" /\ ei = 1 /\ urls = <<>> /\ ui = 1
    /\ yielded = <<>> /\ fetched = <<>>
    /\ mpc = "next" /\ pages = <<>> /\ products = <<>>
    /\ catCsv = None /\ prodCsv = None /\ interrupted = FALSE
    /\ categories = EmptyMap /\ IdleTree /\ IdlePure

Next ==
    \/ Walker
    \/ ParseProduct \/ EnsureCategory \/ Sleep \/ Interrupt
    \/ WriteCategories \/ WriteProducts

Spec == Init /\ [][Next]_vars

(***************************************************************************)
(* Function harness: to_path, uuid_cat and uuid_prod applied to one text   *)
(***************************************************************************)
MaxText == 3

\* letters in both cases, the separators of a path, whitespace, a character
\* outside the allowed class, an accented letter and the D with stroke
Alphabet == {"a", "A", " ", "-", "/", "|", "!", "e'", "D-"}
TextSet == SeqsUpTo(Alphabet, MaxText)
\* a second part for to_path(*parts): none, or the name "A a"
SecondParts == { <<>>, <<"A", " ", "a">> }

PureInit ==
    /\ fnArg \in TextSet /\ fnOut = None
    /\ IdleWalk /\ IdleMain /\ IdleTree /\ categories = EmptyMap

\* to_path(arg, second), and to_path of what it returned
Canonicalized(once) ==
    fnOut' = Some([fn |-> "to_path", once |-> once, twice |-> to_path(<<once>>)])

ApplyToPath ==
    /\ fnOut = None
    /\ \E second \in SecondParts : Canonicalized(to_path(<<fnArg, second>>))
    /\ UNCHANGED <<walkVars, mainVars, treeVars, categories, fnArg>>

\* uuid_cat(arg) and uuid_prod(arg)
ApplyUuid ==
    /\ fnOut = None
    /\ fnOut' = Some([fn |-> "uuid", cat |-> uuid_cat(fnArg), prod |-> uuid_prod(fnArg)])
    /\ UNCHANGED <<walkVars, mainVars, treeVars, categories, fnArg>>

PureNext == ApplyToPath \/ ApplyUuid

PureSpec == PureInit /\ [][PureNext]_vars

(***************************************************************************)
(* Properties of the walker                                                *)
(***************************************************************************)
\* the document a fetched address was served
DocOf(a) == TheVal(web[a])
Served(a) == web[a] # None
IsIndex(a) == Served(a) /\ DocOf(a).status = 200 /\ DocOf(a).typ = "sitemapindex"
IsUrlset(a) == Served(a) /\ DocOf(a).status = 200 /\ DocOf(a).typ = "urlset"

\* the addresses reachable from the entrypoints through the index documents
RECURSIVE ReachFrom(_)
ReachFrom(S) ==
    LET more == S \cup UNION {Range(DocOf(a).locs) : a \in {b \in S : IsIndex(b)}}
    IN  IF more = S THEN S ELSE ReachFrom(more)
Reachable == ReachFrom(Range(entries))

HtmlLocs(a) == SelectSeq(DocOf(a).locs, IsHtml)

RECURSIVE SumHtml(_)
SumHtml(S) ==
    IF S = {} THEN 0
    ELSE LET a == CHOOSE x \in S : TRUE
         IN  Len(HtmlLocs(a)) + SumHtml(S \ {a})

\* the walk ended without the limit cutting it
Uncut == limit = None \/ Len(yielded) < TheVal(limit)

NoDuplicates(s) == \A i, j \in 1..Len(s) : i # j => s[i] # s[j]

\* C1: with limit = K the generator yields at most K URLs in total, whatever
\* the sitemap graph.
C1_BudgetRespected == IsSome(limit) => Len(yielded) <= TheVal(limit)

\* the limit stopped a walk that had more to yield
C1_Witness ==
    /\ mpc = "end" /\ limit = Some(1) /\ Len(yielded) = 1
    /\ \E a \in Addr : IsUrlset(a) /\ Len(HtmlLocs(a)) = 2

\* lexicographic order on tuples of naturals of one length
RECURSIVE LexLess(_, _)
LexLess(x, y) ==
    IF x = <<>> THEN FALSE
    ELSE x[1] < y[1] \/ (x[1] = y[1] /\ LexLess(Tail(x), Tail(y)))

RECURSIVE LoopWork(_)
LoopWork(frames) ==
    IF frames = <<>> THEN 0
    ELSE LET f == frames[1]
         IN  (IF f.i > Len(f.locs) THEN 1 ELSE Len(f.locs) - f.i + 2) + LoopWork(Tail(frames))

\* what is left of the walk: the entries not yet begun, the position within
\* the current entry, the addresses not yet seen, the iterations left to the
\* index loops on the stack, the urls left to yield
WalkRank ==
    << IF ei > Len(entries) THEN 0 ELSE Len(entries) - ei + 1,
       CASE gpc = "entry" -> 3 [] gpc = "discover" -> 2
         [] gpc \in {"yield", "resume"} -> 1 [] OTHER -> 0,
       Cardinality(Addr \ seen),
       LoopWork(stack),
       (IF ui > Len(urls) THEN 0 ELSE 3 * (Len(urls) - ui + 1))
         + (IF gpc = "yield" THEN 2 ELSE IF mpc = "got" THEN 1 ELSE 0) >>

WalkOver == mpc \in {"end", "raised"}

\* no address is expanded by two calls on the stack: a cycle is not followed
StackAcyclic ==
    \A i, j \in 1..Len(stack) : i # j => stack[i].url # stack[j].url
\* a walk that ends without being cut by the limit has fetched every reachable
\* sitemap and yielded exactly the .html leaves of the reachable urlsets
LeavesYielded ==
    (mpc = "end" /\ Uncut) =>
        /\ \A a \in Reachable : a \in seen
        /\ Range(yielded) = UNION {Range(HtmlLocs(a)) : a \in {b \in Reachable : IsUrlset(b)}}

\* C2: on a finite set of addresses the walk terminates: every step of the
\* walk lowers WalkRank in a well-founded order and the walk stops only when
\* the generator has returned or raised; no address is expanded by two calls
\* on the stack (a cycle is not followed); and a walk that ends without being
\* cut by the limit has fetched every reachable sitemap and yielded exactly
\* the .html leaves of the reachable urlsets. This holds with a limit and
\* with limit = None.
C2_CycleSafety ==
    /\ [][LexLess(WalkRank', WalkRank)]_vars
    /\ [](WalkOver \/ ENABLED WalkNext)
    /\ []StackAcyclic
    /\ []LeavesYielded

\* a finished walk over two index documents that list each other, with a leaf
C2_Witness ==
    /\ mpc = "end" /\ Len(yielded) >= 1
    /\ \E a, b \in Addr : /\ a # b /\ IsIndex(a) /\ IsIndex(b)
                          /\ b \in Range(DocOf(a).locs) /\ a \in Range(DocOf(b).locs)

\* C3: within one walk each sitemap address is fetched at most once, and a
\* urlset contributes its leaves once however many paths lead to it.
C3_FetchedOnce ==
    /\ NoDuplicates(fetched)
    /\ Len(yielded) <= SumHtml({a \in seen : IsUrlset(a)})
    /\ (mpc = "end" /\ Uncut) => Len(yielded) = SumHtml({a \in seen : IsUrlset(a)})

\* index A lists B twice, B is a urlset with one leaf, and the walk is over
C3_Witness ==
    /\ mpc = "end" /\ Len(yielded) = 1 /\ limit = None
    /\ \E a, b \in Addr : /\ IsIndex(a) /\ DocOf(a).locs = <<b, b>>
                          /\ IsUrlset(b) /\ Len(HtmlLocs(b)) = 1

\* C4: no URL is yielded twice.
C4_Deduplicated == NoDuplicates(yielded)

\* C5: no exception escapes the walker, and a failed fetch or parse does not
\* keep the other reachable sitemaps from being walked.
C5_FailureSemantics ==
    /\ mpc # "raised"
    /\ (mpc = "end" /\ Uncut) => \A a \in Reachable : a \in seen

(***************************************************************************)
(* Properties of the category tree                                         *)
(***************************************************************************)
ParentsFirst(cats) ==
    \A i \in 1..Len(cats) :
        (cats[i].parent_path # None /\ TheVal(cats[i].parent_path) # <<>>) =>
            \E j \in 1..(i - 1) : cats[j].path = TheVal(cats[i].parent_path)

\* C8: after any sequence of ensure_category calls, topological_categories
\* places the node at n.parent_path strictly before every node n whose
\* parent_path is not empty.
C8_ParentBeforeChild == ParentsFirst(topological_categories(categories))

\* a child whose name holds a "/" under a parent, beside a node whose name
\* canonicalized to the empty path
C8_Witness ==
    /\ <<>> \in DOMAIN categories
    /\ \E p \in DOMAIN categories :
          /\ categories[p].parent_path # None
          /\ TheVal(categories[p].parent_path) # <<>>
          /\ "/" \in Range(categories[p].name)

\* the paths of the prefixes of chain from the k-th name on, prev being the
\* path built last (None before the first): an empty name adds no path
RECURSIVE PrefixPaths(_, _, _)
PrefixPaths(chain, k, prev) ==
    IF k > Len(chain) THEN {}
    ELSE IF chain[k] = <<>> THEN PrefixPaths(chain, k + 1, prev)
    ELSE IF prev = None
    THEN {to_path(<<chain[k]>>)}
            \cup PrefixPaths(chain, k + 1, Some(to_path(<<chain[k]>>)))
    ELSE {to_path(<<TheVal(prev), chain[k]>>)}
            \cup PrefixPaths(chain, k + 1, Some(to_path(<<TheVal(prev), chain[k]>>)))

ExpectedPaths(chains) == UNION {PrefixPaths(c, 1, None) : c \in chains}

\* C9: after any sequence of ensure_category calls the node map has exactly
\* one entry per canonical path of the prefixes of the submitted chains: every
\* key is the path of its node and no path is missing.
C9_NoDuplicatePaths ==
    /\ \A p \in DOMAIN categories : categories[p].path = p
    /\ DOMAIN categories = ExpectedPaths(submitted)

(***************************************************************************)
(* Properties of the orchestrator                                          *)
(***************************************************************************)
Exporting == mpc \in {"end", "write_products", "done"}

\* C6: a KeyboardInterrupt at any point of the crawl loop is caught: from then
\* on the run is in the export, no product is added or lost, each export step
\* writes its file and moves on, and the finished export holds categories.csv
\* and one products.csv row for every product accumulated.
C6_FlushOnInterrupt ==
    /\ [](interrupted => Exporting)
    /\ [][interrupted' => products' = products]_vars
    /\ [][(interrupted /\ mpc = "end") =>
            (mpc' = "write_products" /\ catCsv' # None)]_vars
    /\ [][(interrupted /\ mpc = "write_products") =>
            (mpc' = "done" /\ prodCsv' # None)]_vars
    /\ []((interrupted /\ mpc = "done") =>
            /\ catCsv # None /\ prodCsv # None
            /\ Len(TheVal(prodCsv)) = Len(products)
            /\ \A i \in 1..Len(products) :
                  TheVal(prodCsv)[i].id = uuid_prod(products[i].url))

\* an export finished after an interrupt that arrived during the discovery of
\* a later entrypoint, with a product already accumulated
C6_Witness ==
    /\ interrupted /\ mpc = "done" /\ stack # <<>>
    /\ Len(products) >= 1 /\ Len(TheVal(prodCsv)) >= 1

\* C7 as stated: no sitemap document is fetched after the first product page.
C7_StrictPhases == [][fetched' # fetched => pages = <<>>]_vars

\* C7: discovery and product pages alternate per entrypoint: a sitemap is
\* fetched only when every URL discovered so far has been yielded and its
\* page fetched, a product page is processed only while no discovery call is
\* in progress, and with at most one entrypoint no sitemap is fetched after
\* the first product page.
C7_SequentialPerEntrypoint ==
    /\ [][fetched' # fetched => (ui > Len(urls) /\ Len(pages) = Len(yielded))]_vars
    /\ [](mpc \in {"got", "ensure", "sleep"} => (stack = <<>> /\ gpc = "resume"))
    /\ [][(Len(entries) <= 1 /\ fetched' # fetched) => pages = <<>>]_vars

\* the second entrypoint, which only the loop over the entrypoints reaches,
\* has been fetched after a product page of the first
C7_Witness ==
    /\ Len(entries) = 2 /\ TheVal(web[entries[1]]).typ = "urlset"
    /\ entries[2] \in seen /\ pages # <<>>

\* C10: no step changes or removes a node that is in the map; ensure_category,
\* called by the crawl loop or by write_products_csv, only adds nodes for new
\* paths.
C10_FirstWriterWins ==
    [][\A p \in DOMAIN categories :
          p \in DOMAIN categories' /\ categories'[p] = categories[p]]_vars

\* the export is done and a product whose first name differs from the name
\* recorded at its path left that node as the first writer made it
C10_Witness ==
    /\ mpc = "done"
    /\ \E i \in 1..Len(products) :
          /\ products[i].category_chain # <<>>
          /\ to_path(<<products[i].category_chain[1]>>) \in DOMAIN categories
          /\ categories[to_path(<<products[i].category_chain[1]>>)].name
                # Strip(products[i].category_chain[1], Whitespace)
(***************************************************************************)
(* Properties of ensure_category                                           *)
(***************************************************************************)
\* path[k-1] of the recurrence path[0] = to_path(name[0]),
\* path[i] = to_path(path[i-1], name[i])
RECURSIVE ChainPath(_, _)
ChainPath(chain, k) ==
    IF k = 1 THEN to_path(<<chain[1]>>)
    ELSE to_path(<<ChainPath(chain, k - 1), chain[k]>>)

AllNonEmpty(chain) == \A k \in 1..Len(chain) : chain[k] # <<>>

\* the call recorded in r returned the deepest path, a key of nodes
ReturnsDeepest(r, nodes) ==
    (r.chain # <<>> /\ AllNonEmpty(r.chain)) =>
        /\ ~r.raised
        /\ r.ret = Some(ChainPath(r.chain, Len(r.chain)))
        /\ ChainPath(r.chain, Len(r.chain)) \in DOMAIN nodes

\* C11: for a non-empty chain of non-empty names ensure_category returns the
\* last path of the recurrence and that path is a key of the map after the
\* call; for the empty chain it returns nothing and leaves the map unchanged.
C11_ReturnsDeepest ==
    /\ [](lastRet # None => ReturnsDeepest(TheVal(lastRet), categories))
    /\ [][(calls' # calls /\ TheVal(lastRet').chain = <<>>) =>
            (TheVal(lastRet').ret = None /\ categories' = categories)]_vars

\* a chain of two non-empty names was submitted and its two-segment path
\* came back
C11_Witness ==
    /\ lastRet # None
    /\ Len(TheVal(lastRet).chain) = 2 /\ AllNonEmpty(TheVal(lastRet).chain)
    /\ TheVal(lastRet).ret # None
    /\ "/" \in Range(TheVal(TheVal(lastRet).ret))
    /\ TheVal(TheVal(lastRet).ret) \in DOMAIN categories
\* the canonical paths the example is said to create
DienThoaiPath == <<"d","i","e","n","-","t","h","o","a","i">>
SamsungGalaxyPath ==
    DienThoaiPath \o <<"/","s","a","m","s","u","n","g","-","g","a","l","a","x","y">>

\* C12: the chain ["Dien thoai", "Samsung Galaxy"] (Vietnamese spelling)
\* submitted to an empty tree creates dien-thoai, top-level and popular, and
\* dien-thoai/samsung-galaxy, not popular, and a product with this chain gets
\* the id of dien-thoai/samsung-galaxy as its category_id.
C12_Example ==
    (calls = 1 /\ lastRet # None /\ TheVal(lastRet).chain = ExampleChain) =>
        /\ ~TheVal(lastRet).raised
        /\ DOMAIN categories = {DienThoaiPath, SamsungGalaxyPath}
        /\ categories[DienThoaiPath].parent_path = None
        /\ categories[DienThoaiPath].is_popular
        /\ ~categories[SamsungGalaxyPath].is_popular
        /\ ProductRow([url |-> <<>>, category_chain |-> ExampleChain],
                      TheVal(lastRet).ret).category_id = uuid_cat(SamsungGalaxyPath)
\* C13: every node of the map is popular exactly when it has no parent_path
\* (None) and its path is in POPULAR_TOP.
C13_PopularIffTopCurated ==
    \A p \in DOMAIN categories :
        categories[p].is_popular <=>
            (categories[p].parent_path = None /\ categories[p].path \in POPULAR_TOP)

\* a popular top-level node beside a node under a parent whose own name is a
\* curated one and which is not popular
C13_Witness ==
    /\ \E p \in DOMAIN categories : categories[p].is_popular
    /\ \E q \in DOMAIN categories :
          /\ categories[q].parent_path # None
          /\ to_path(<<categories[q].name>>) \in POPULAR_TOP
          /\ ~categories[q].is_popular
(***************************************************************************)
(* Properties of the identifier and canonicalization functions             *)
(***************************************************************************)
\* C14: uuid_cat and uuid_prod return the empty value for the empty input and
\* a non-empty one for every other input.
C14_EmptyForEmpty ==
    (fnOut # None /\ TheVal(fnOut).fn = "uuid") =>
        /\ fnArg = <<>> => (TheVal(fnOut).cat = <<>> /\ TheVal(fnOut).prod = <<>>)
        /\ fnArg # <<>> => (TheVal(fnOut).cat # <<>> /\ TheVal(fnOut).prod # <<>>)

\* C16: to_path applied to its own output returns that output.
C16_Idempotent ==
    (fnOut # None /\ TheVal(fnOut).fn = "to_path") => TheVal(fnOut).twice = TheVal(fnOut).once

\* a text that is not canonical was canonicalized to a path of two segments
\* holding a "-"
C16_Witness ==
    /\ fnOut # None /\ TheVal(fnOut).fn = "to_path"
    /\ TheVal(fnOut).once # fnArg
    /\ "/" \in Range(TheVal(fnOut).once) /\ "-" \in Range(TheVal(fnOut).once)
    /\ "|" \in Range(fnArg)
\* rows are the categories.csv rows of the nodes cats: each row carries the
\* id of its node's path, and a child's parent_id is the id of its parent's row
CategoryIdsAgree(cats, rows) ==
    /\ Len(rows) = Len(cats)
    /\ \A i \in 1..Len(cats) : rows[i].id = uuid_cat(cats[i].path)
    /\ \A i, j \in 1..Len(cats) :
          (cats[i].path # <<>> /\ cats[j].parent_path = Some(cats[i].path)) =>
              rows[j].parent_id = rows[i].id

\* rows are the products.csv rows of the products ps: a product's category_id
\* is the id of the path its chain resolves to, and products fetched from the
\* same URL, or resolving to the same path, carry the same id
ProductIdsAgree(ps, rows) ==
    /\ Len(rows) = Len(ps)
    /\ \A k \in 1..Len(ps) :
          ps[k].category_chain # <<>> =>
              rows[k].category_id =
                  uuid_cat(ChainPath(ps[k].category_chain, Len(ps[k].category_chain)))
    /\ \A k, l \in 1..Len(ps) :
          /\ ps[k].url = ps[l].url => rows[k].id = rows[l].id
          /\ (ps[k].category_chain # <<>> /\ ps[l].category_chain # <<>>
              /\ ChainPath(ps[k].category_chain, Len(ps[k].category_chain))
                   = ChainPath(ps[l].category_chain, Len(ps[l].category_chain)))
             => rows[k].category_id = rows[l].category_id

\* C15: the ids written by the export depend on the path or URL alone: when
\* categories.csv has just been written each row carries uuid_cat of its
\* node's path and each child's parent_id is the id of its parent's row, and
\* when products.csv is written every category_id is uuid_cat of the path the
\* product's chain resolves to, whatever the tree held and however often the
\* id was computed before.
C15_IdsDeterministic ==
    /\ mpc = "write_products" =>
          CategoryIdsAgree(topological_categories(categories), TheVal(catCsv))
    /\ mpc = "done" => ProductIdsAgree(products, TheVal(prodCsv))

\* a finished export with a child category row and two products fetched from
\* the same URL that resolve to a category
C15_Witness ==
    /\ mpc = "done"
    /\ \E r \in Range(TheVal(catCsv)) : r.parent_id # <<>>
    /\ \E k, l \in 1..Len(products) :
          /\ k # l /\ products[k].url = products[l].url
          /\ TheVal(prodCsv)[k].category_id # <<>>
          /\ TheVal(prodCsv)[l].category_id # <<>>
(***************************************************************************)
(* Properties of the urlset filter and of the budget                       *)
(***************************************************************************)
\* C17 as stated: every yielded URL ends in .html, in that very spelling.
C17_SuffixExact == \A i \in 1..Len(yielded) : yielded[i].ext = ".html"

\* C17: every yielded URL is a location of a fetched urlset document and ends
\* in .html when lowered (loc.lower().endswith(".html"), so .HTML passes);
\* the other locations are dropped and use no budget: a walk that ends
\* below its limit has yielded every matching location of the urlsets it
\* fetched.
C17_SuffixFilter ==
    /\ \A i \in 1..Len(yielded) :
          /\ IsHtml(yielded[i])
          /\ \E a \in seen : IsUrlset(a) /\ yielded[i] \in Range(DocOf(a).locs)
    /\ (mpc = "end" /\ Uncut) =>
          \A a \in seen : IsUrlset(a) => Range(HtmlLocs(a)) \subseteq Range(yielded)

\* with limit 1, a urlset listing a .php location and then a .HTML one gave
\* the .HTML one
C17_Witness ==
    /\ mpc = "end" /\ limit = Some(1) /\ Len(yielded) = 1
    /\ yielded[1].ext = ".HTML"
    /\ \E a \in seen :
          /\ IsUrlset(a) /\ Len(DocOf(a).locs) = 2
          /\ DocOf(a).locs[1].ext = ".php" /\ DocOf(a).locs[2] = yielded[1]
\* the URLs collected by the calls on frames, not yet handed to the generator
RECURSIVE StackResults(_)
StackResults(frames) ==
    IF frames = <<>> THEN 0
    ELSE Len(frames[1].results) + StackResults(Tail(frames))

\* the URLs collected so far in the walk: yielded, or held by a call in progress
Collected == total + StackResults(stack)

\* C18: with limit K a sitemap address is fetched only while fewer than K
\* URLs are collected, and every call in progress holds as budget_left
\* exactly K less what was collected when it was called (None without limit).
C18_BudgetShortCircuit ==
    /\ [][(fetched' # fetched /\ IsSome(limit)) => Collected < TheVal(limit)]_vars
    /\ [](\A i \in 1..Len(stack) :
            stack[i].budget_left =
                IF limit = None THEN None
                ELSE Some(TheVal(limit) - total
                             - StackResults(SubSeq(stack, 1, i - 1))))

\* a walk with limit 1 ended with a child of a fetched index left unfetched,
\* the child before it having given the one URL
C18_Witness ==
    /\ mpc = "end" /\ limit = Some(1) /\ Len(yielded) = 1
    /\ \E a \in seen :
          /\ IsIndex(a) /\ Len(DocOf(a).locs) = 2
          /\ DocOf(a).locs[1] \in seen /\ DocOf(a).locs[2] \notin seen
\* C19: no call of ensure_category raises, whatever the chain.
C19_Total == lastRet # None => ~TheVal(lastRet).raised

\* C20: when the export is done every non-empty category_id of products.csv
\* is the id of a row of categories.csv.
C20_ReferentialIntegrity ==
    mpc = "done" =>
        \A r \in Range(TheVal(prodCsv)) :
            r.category_id # <<>> =>
                \E c \in Range(TheVal(catCsv)) : c.id = r.category_id

\* a chain pick_category_path_from_breadcrumb hands to ensure_category: the
\* picker keeps it whole (names longer than one character, at most three,
\* none over sixty characters, no two equal with case ignored)
Accepted(chain) == pick_category_path_from_breadcrumb(chain) = chain

\* C21: after any sequence of ensure_category calls on chains the breadcrumb
\* picker accepts, every node of the map has a non-empty path and its row of
\* categories.csv a non-empty id.
C21_NonEmptyPaths ==
    (\A chain \in submitted : Accepted(chain)) =>
        \A p \in DOMAIN categories :
            /\ categories[p].path # <<>>
            /\ CategoryRow(categories[p]).id # <<>>

\* every order in which the chains of S can be submitted, each chain once
RECURSIVE Orders(_)
Orders(S) ==
    IF S = {} THEN {<<>>}
    ELSE UNION {{<<chain>> \o rest : rest \in Orders(S \ {chain})} : chain \in S}

\* the node map after ensure_category(nodes, chain) for each chain of order
\* in turn
RECURSIVE Build(_, _)
Build(nodes, order) ==
    IF order = <<>> THEN nodes
    ELSE Build(ensure_category(nodes, order[1]).nodes, Tail(order))

\* the tree structure of a node map: its paths, each with its parent_path
Structure(nodes) == [p \in DOMAIN nodes |-> nodes[p].parent_path]

\* C22: whatever the order in which the submitted chains are given to
\* ensure_category, the map has the same paths and the same parent_path for
\* each path as the map built by the calls made.
C22_OrderIndependent ==
    \A order \in Orders(submitted) :
        Structure(Build(EmptyMap, order)) = Structure(categories)
====
